---- MODULE Spec2Model ----
(***************************************************************************)
(* Model of src/dsa_cs.py: the CloudResourceAllocator (a PriorityQueue of  *)
(* CloudResource records plus one MerkleTree snapshot over their names)    *)
(* and the MerkleTree builder.                                             *)
(*                                                                         *)
(* Strings are sequences of tokens, so that Python's string concatenation  *)
(* is sequence concatenation.  sha256(...).hexdigest() is modelled as a    *)
(* collision-free digest: the bracketed term <<"sha256(">> \o s \o <<")">>.*)
(* A resource name may itself be the text of two concatenated digests.     *)
(***************************************************************************)
EXTENDS Integers, Sequences, FiniteSets, TLC

\* Capacity of the queue in the model: allocations stop at MaxRes records.
MaxRes == 3

\* Priorities entered by callers range over 1..MaxPrio.
MaxPrio == 2

VARIABLES
    resources,     \* self.resources.queue: the heap array of the PriorityQueue
    merkle_tree,   \* self.merkle_tree: None, or the root held by the MerkleTree
    detached,      \* the records the last deallocate_resource that found a match
                   \* took out of the queue (the caller drops them when it
                   \* allocates a new resource)
    snap_names,    \* history: the names enumerated by the last successful build
    mutated,       \* history: a record was inserted or removed since that build
    vocabulary,    \* the names this run's callers enter (fixed at start)
    last,          \* the last call: operation, argument, outcome, printed text
    threads        \* the frames of the calls in progress, one for each caller,
                   \* where the steps of a call are modelled one by one; empty
                   \* where a call is one step

vars == <<threads, vocabulary, resources, merkle_tree, detached, snap_names, mutated, last>>

----------------------------------------------------------------------------
\* MerkleTree

\* MerkleTree.hash: sha256 of the text, as a hex digest.
hash(item) == <<"sha256(">> \o item \o <<")">>

\* The IndexError raised by tree[0] on an empty list.
IndexError == <<"IndexError">>

\* collapse with the loop bound off by one (range(0, i - 1, 2)): the unpaired
\* last node of an odd level is lost instead of carried forward.
RECURSIVE collapse_no_carry(_, _)
collapse_no_carry(tree, j) ==
    IF j + 1 < Len(tree)
    THEN <<hash(tree[j + 1] \o tree[j + 2])>> \o collapse_no_carry(tree, j + 2)
    ELSE IF Len(tree) = 1 THEN tree ELSE <<>>

\* collapse that hashes the unpaired last node again instead of carrying it
\* forward as it is.
RECURSIVE collapse_rehash_carry(_, _)
collapse_rehash_carry(tree, j) ==
    IF j >= Len(tree) THEN <<>>
    ELSE IF j + 1 < Len(tree)
         THEN <<hash(tree[j + 1] \o tree[j + 2])>> \o collapse_rehash_carry(tree, j + 2)
         ELSE <<hash(tree[j + 1])>>

\* collapse with the scan advancing by one (range(0, i, 1)): the pairs overlap
\* and a level of i nodes gives i nodes again.
RECURSIVE collapse_overlapping(_, _)
collapse_overlapping(tree, j) ==
    IF j >= Len(tree) THEN <<>>
    ELSE IF j + 1 < Len(tree)
         THEN <<hash(tree[j + 1] \o tree[j + 2])>> \o collapse_overlapping(tree, j + 1)
         ELSE <<tree[j + 1]>>

\* One pass of the while loop of build_tree: the level built from `tree`,
\* scanning j = 0, 2, 4, ... (positions j+1, j+2 of the sequence).
RECURSIVE collapse(_, _)
collapse(tree, j) ==
    IF j >= Len(tree) THEN <<>>
    ELSE IF j + 1 < Len(tree)
         THEN <<hash(tree[j + 1] \o tree[j + 2])>> \o collapse(tree, j + 2)
         ELSE <<tree[j + 1]>>

\* The while loop of build_tree: collapse until at most one node is left.
RECURSIVE reduce(_)
reduce(tree) == IF Len(tree) > 1 THEN reduce(collapse(tree, 0)) ELSE tree

\* MerkleTree.build_tree: the root, or IndexError for an empty list.
build_tree(data) ==
    LET leaves == [i \in 1..Len(data) |-> hash(data[i])]
        top == reduce(leaves)
    IN IF top = <<>> THEN IndexError ELSE top[1]

----------------------------------------------------------------------------
\* CloudResource and the PriorityQueue (heapq on a list)

\* A name that is itself the text of two concatenated digests.
Forged == hash(<<"A">>) \o hash(<<"A">>)

\* The names the callers of one run enter: two ordinary names, or an ordinary
\* name and the forged one.
Vocabularies == {{<<"A">>, <<"B">>}, {<<"A">>, Forged}}

\* A name no allocation ever uses.
Unknown == <<"Z">>

Priorities == 1..MaxPrio

\* CloudResource.__init__ with the default allocated=False.
CloudResource(name, priority) ==
    [name |-> name, priority |-> priority, allocated |-> FALSE]

\* __lt__ with the comparison turned round (the larger priority first).
lt_reversed(self, other) == self.priority > other.priority

\* CloudResource.__lt__
lt(self, other) == self.priority < other.priority

\* heapq._siftdown: move newitem from pos towards startpos (1-based positions).
RECURSIVE siftdown(_, _, _, _)
siftdown(heap, startpos, pos, newitem) ==
    IF pos > startpos /\ lt(newitem, heap[pos \div 2])
    THEN siftdown([heap EXCEPT ![pos] = heap[pos \div 2]], startpos, pos \div 2, newitem)
    ELSE [heap EXCEPT ![pos] = newitem]

\* heapq._siftup: bubble the smaller child up to a leaf, then sift newitem down.
RECURSIVE siftup(_, _, _, _)
siftup(heap, startpos, pos, newitem) ==
    LET childpos == 2 * pos
        rightpos == childpos + 1
        c == IF rightpos <= Len(heap) /\ ~lt(heap[childpos], heap[rightpos])
             THEN rightpos ELSE childpos
    IN IF childpos <= Len(heap)
       THEN siftup([heap EXCEPT ![pos] = heap[c]], startpos, c, newitem)
       ELSE siftdown([heap EXCEPT ![pos] = newitem], startpos, pos, newitem)

\* PriorityQueue.put: heappush.
put(queue, item) == siftdown(Append(queue, item), 1, Len(queue) + 1, item)

\* PriorityQueue.get on a non-empty queue: the item heappop returns ...
get_item(queue) == queue[1]

\* ... and the heap array it leaves.
get_rest(queue) ==
    IF Len(queue) = 1 THEN <<>>
    ELSE LET lastelt == queue[Len(queue)]
             heap == [SubSeq(queue, 1, Len(queue) - 1) EXCEPT ![1] = lastelt]
         IN siftup(heap, 1, 1, lastelt)

\* The first loop of deallocate_resource: every record, in extraction order.
RECURSIVE drain(_)
drain(queue) ==
    IF queue = <<>> THEN <<>>
    ELSE <<get_item(queue)>> \o drain(get_rest(queue))

\* The second loop run over resources_copy from its end (reversed(...)).
RECURSIVE put_all_reversed(_, _)
put_all_reversed(queue, items) ==
    IF items = <<>> THEN queue
    ELSE put_all_reversed(put(queue, items[Len(items)]), SubSeq(items, 1, Len(items) - 1))

\* The second loop of deallocate_resource: put the kept records back.
RECURSIVE put_all(_, _)
put_all(queue, items) ==
    IF items = <<>> THEN queue
    ELSE put_all(put(queue, items[1]), Tail(items))

\* [resource.name for resource in self.resources.queue]
resource_names(queue) == [i \in 1..Len(queue) |-> queue[i].name]

----------------------------------------------------------------------------
\* CloudResourceAllocator

None == <<>>

NoCall ==
    [op |-> "none", src |-> "", arg |-> <<>>, prio |-> 0, ret |-> "None",
     res |-> <<>>, printed |-> "", again |-> FALSE]

\* The record of a call, `again` telling whether it repeats the previous call.
Call(op, src, arg, prio, ret, res, printed) ==
    [op |-> op, src |-> src, arg |-> arg, prio |-> prio, ret |-> ret,
     res |-> res, printed |-> printed,
     again |-> (last.op = op /\ last.src = src /\ last.arg = arg /\ last.prio = prio)]

Init ==
    /\ threads = <<>>
    /\ vocabulary \in Vocabularies
    /\ resources = <<>>
    /\ merkle_tree = None
    /\ detached = {}
    /\ snap_names = <<>>
    /\ mutated = FALSE
    /\ last = NoCall

\* allocate_resource without the line resource.allocated = True.
allocate_resource_no_flag(queue, resource) ==
    IF ~resource.allocated THEN put(queue, resource) ELSE queue

\* The queue after allocate_resource(resource): put only if not yet allocated.
\* The flag is set on the object, which is then the one held in the queue.
allocate_resource(queue, resource) ==
    IF ~resource.allocated
    THEN put(queue, [resource EXCEPT !.allocated = TRUE])
    ELSE queue

\* main, choice 1: a new CloudResource from the name and priority entered.
AllocateNew(name, priority) ==
    /\ Len(resources) < MaxRes
    /\ resources' = allocate_resource(resources, CloudResource(name, priority))
    /\ detached' = {}
    /\ mutated' = (merkle_tree # None)
    /\ last' = Call("allocate", "new", name, priority, "None", <<>>, "")
    /\ UNCHANGED <<threads, vocabulary, merkle_tree, snap_names>>

\* allocate_resource on the object that sits at position i of the queue.
AllocateQueued(i) ==
    /\ i \in 1..Len(resources)
    /\ Len(resources) < MaxRes
    /\ resources' = IF ~resources[i].allocated
                    THEN put([resources EXCEPT ![i].allocated = TRUE],
                             [resources[i] EXCEPT !.allocated = TRUE])
                    ELSE resources
    /\ mutated' = (mutated \/ (merkle_tree # None /\ ~resources[i].allocated))
    /\ last' = Call("allocate", "queued", resources[i].name, 0,
                    "None", <<>>, "")
    /\ UNCHANGED <<threads, vocabulary, merkle_tree, detached, snap_names>>

\* allocate_resource on an object an earlier deallocate_resource took out.
AllocateDetached(r) ==
    /\ r \in detached
    /\ Len(resources) < MaxRes
    /\ resources' = allocate_resource(resources, r)
    /\ detached' = IF ~r.allocated THEN detached \ {r} ELSE detached
    /\ mutated' = (mutated \/ (merkle_tree # None /\ ~r.allocated))
    /\ last' = Call("allocate", "detached", r.name, 0, "None", <<>>, "")
    /\ UNCHANGED <<threads, vocabulary, merkle_tree, snap_names>>

\* deallocate_resource, lines 58-59: the records of the drained sequence that
\* are assigned to deallocated_resource, in extraction order.
matching(extracted, resource_name) ==
    SelectSeq(extracted, LAMBDA r : r.name = resource_name)

\* resources_copy when only the first matching record is taken out: the later
\* matching records are appended to the copy and put back.
resources_copy_first_only(extracted, resource_name) ==
    LET first == CHOOSE k \in 1..(Len(extracted) + 1) :
                    /\ k <= Len(extracted) => extracted[k].name = resource_name
                    /\ \A m \in 1..(k - 1) : extracted[m].name # resource_name
    IN [k \in 1..(IF first <= Len(extracted) THEN Len(extracted) - 1 ELSE Len(extracted)) |->
          IF k < first THEN extracted[k] ELSE extracted[k + 1]]

\* deallocate_resource, lines 60-61: the records appended to resources_copy.
resources_copy(extracted, resource_name) ==
    SelectSeq(extracted, LAMBDA r : r.name # resource_name)

\* deallocate_resource that also discards the snapshot once a record is removed.
Deallocate_invalidates(resource_name) ==
    LET extracted == drain(resources)
        hits == matching(extracted, resource_name)
        found == hits # <<>>
        deallocated_resource == [hits[Len(hits)] EXCEPT !.allocated = FALSE]
        overwritten == {hits[k] : k \in 1..(Len(hits) - 1)}
    IN /\ resources' = put_all(<<>>, resources_copy(extracted, resource_name))
       /\ detached' = IF found THEN {deallocated_resource} \cup overwritten ELSE detached
       /\ merkle_tree' = IF found THEN None ELSE merkle_tree
       /\ snap_names' = IF found THEN <<>> ELSE snap_names
       /\ mutated' = IF found THEN FALSE ELSE mutated
       /\ last' = Call("deallocate", "", resource_name, 0,
                       IF found THEN "Resource" ELSE "None",
                       IF found THEN <<deallocated_resource>> ELSE <<>>, "")
       /\ UNCHANGED <<threads, vocabulary>>

\* deallocate_resource(resource_name).  deallocated_resource ends as the last
\* matching record extracted; the matching records extracted before it are
\* overwritten in that variable: they are in neither list and keep their flag.
Deallocate(resource_name) ==
    LET extracted == drain(resources)
        hits == matching(extracted, resource_name)
        found == hits # <<>>
        deallocated_resource == [hits[Len(hits)] EXCEPT !.allocated = FALSE]
        overwritten == {hits[k] : k \in 1..(Len(hits) - 1)}
    IN /\ resources' = put_all(<<>>, resources_copy(extracted, resource_name))
       /\ detached' = IF found THEN {deallocated_resource} \cup overwritten ELSE detached
       /\ mutated' = (mutated \/ (merkle_tree # None /\ found))
       /\ last' = Call("deallocate", "", resource_name, 0,
                       IF found THEN "Resource" ELSE "None",
                       IF found THEN <<deallocated_resource>> ELSE <<>>, "")
       /\ UNCHANGED <<threads, vocabulary, merkle_tree, snap_names>>

\* build_merkle_tree that builds a tree only while there is none
\* (if not self.merkle_tree: ...), so that a later build keeps the old root.
Build_keeps_first ==
    LET root == build_tree(resource_names(resources))
        raised == (root = IndexError)
        kept == raised \/ merkle_tree # None
    IN /\ merkle_tree' = IF kept THEN merkle_tree ELSE root
       /\ snap_names' = IF kept THEN snap_names ELSE resource_names(resources)
       /\ mutated' = IF kept THEN mutated ELSE FALSE
       /\ last' = Call("build", "", <<>>, 0, IF raised THEN "IndexError" ELSE "None",
                       <<>>, "")
       /\ UNCHANGED <<threads, vocabulary, resources, detached>>

\* build_merkle_tree(): MerkleTree(resource_names); the assignment to
\* self.merkle_tree is not reached when the constructor raises.
Build ==
    LET root == build_tree(resource_names(resources))
        raised == (root = IndexError)
    IN /\ merkle_tree' = IF raised THEN merkle_tree ELSE root
       /\ snap_names' = IF raised THEN snap_names ELSE resource_names(resources)
       /\ mutated' = IF raised THEN mutated ELSE FALSE
       /\ last' = Call("build", "", <<>>, 0, IF raised THEN "IndexError" ELSE "None",
                       <<>>, "")
       /\ UNCHANGED <<threads, vocabulary, resources, detached>>

\* verify_merkle_tree without the test for a missing tree: the comparison is
\* made against None.
verify_no_guard ==
    LET root == build_tree(resource_names(resources))
    IN IF root = IndexError THEN "IndexError"
       ELSE IF merkle_tree = root THEN "True" ELSE "False"

\* verify_merkle_tree that rebuilds from the data kept in the stored tree
\* (self.merkle_tree.data) instead of the names now in the queue.
verify_of_stored_data ==
    IF merkle_tree = None THEN "False"
    ELSE IF resource_names(resources) = <<>> THEN "IndexError"
         ELSE IF merkle_tree = build_tree(snap_names) THEN "True" ELSE "False"

\* The outcome of verify_merkle_tree() in the current state.
verify_merkle_tree ==
    IF merkle_tree = None THEN "False"
    ELSE LET root == build_tree(resource_names(resources))
         IN IF root = IndexError THEN "IndexError"
            ELSE IF merkle_tree = root THEN "True" ELSE "False"

\* What verify_merkle_tree() prints.
verify_prints == IF merkle_tree = None THEN "Merkle tree not built." ELSE ""

\* verify_merkle_tree that keeps the root it recomputed as the stored one.
Verify_stores_root ==
    LET root == build_tree(resource_names(resources))
    IN /\ last' = Call("verify", "", <<>>, 0, verify_merkle_tree, <<>>, verify_prints)
       /\ merkle_tree' = IF merkle_tree = None \/ root = IndexError THEN merkle_tree ELSE root
       /\ UNCHANGED <<threads, vocabulary, resources, detached, snap_names, mutated>>

Verify ==
    /\ last' = Call("verify", "", <<>>, 0, verify_merkle_tree, <<>>, verify_prints)
    /\ UNCHANGED <<threads, vocabulary, resources, merkle_tree, detached, snap_names, mutated>>

Next ==
    \/ \E name \in vocabulary, priority \in Priorities : AllocateNew(name, priority)
    \/ \E i \in 1..MaxRes : AllocateQueued(i)
    \/ \E r \in detached : AllocateDetached(r)
    \/ \E name \in vocabulary \cup {Unknown} : Deallocate(name)
    \/ Build
    \/ Verify

Spec == Init /\ [][Next]_vars

----------------------------------------------------------------------------
\* The menu of main: choices 1 to 6, the two read operations among them.

\* get_allocated_resources()
get_allocated_resources ==
    resource_names(SelectSeq(resources, LAMBDA r : r.allocated))

\* main, choice 5.  The list returned is kept in the field `names` of the call.
GetAllocated ==
    /\ last' = [op |-> "get_allocated", src |-> "", arg |-> <<>>, prio |-> 0,
                ret |-> "List", res |-> <<>>, printed |-> "",
                again |-> (last.op = "get_allocated"),
                names |-> get_allocated_resources]
    /\ UNCHANGED <<threads, vocabulary, resources, merkle_tree, detached, snap_names, mutated>>

\* get_resource_by_name(resource_name): the first record of the scan that
\* carries the name, or None.
get_resource_by_name(resource_name) ==
    LET hits == {i \in 1..Len(resources) : resources[i].name = resource_name}
    IN IF hits = {} THEN <<>>
       ELSE <<resources[CHOOSE i \in hits : \A k \in hits : i <= k]>>

\* main, choice 6.
GetByName(resource_name) ==
    LET resource == get_resource_by_name(resource_name)
    IN /\ last' = Call("get_by_name", "", resource_name, 0,
                       IF resource = <<>> THEN "None" ELSE "Resource", resource, "")
       /\ UNCHANGED <<threads, vocabulary, resources, merkle_tree, detached, snap_names, mutated>>

\* main starts with an empty allocator; the names typed in are A and B.
MenuInit ==
    /\ Init
    /\ vocabulary = {<<"A">>, <<"B">>}

MenuNext ==
    \/ \E name \in vocabulary, priority \in Priorities : AllocateNew(name, priority)
    \/ \E name \in vocabulary \cup {Unknown} : Deallocate(name)
    \/ Build
    \/ Verify
    \/ GetAllocated
    \/ \E name \in vocabulary \cup {Unknown} : GetByName(name)

SpecMenu == MenuInit /\ [][MenuNext]_vars

----------------------------------------------------------------------------
\* The scenario of three allocations, a snapshot and a deallocation: the menu
\* driven through allocate A, B, C; build; verify; deallocate B; verify;
\* build; verify, the three priorities drawn from ScenarioPriorities.

ScenarioNames == << <<"A">>, <<"B">>, <<"C">> >>

ScenarioPriorities == {1, 3, 5}

ScenarioInit ==
    /\ threads = <<>>
    /\ vocabulary = {ScenarioNames[k] : k \in 1..Len(ScenarioNames)}
    /\ resources = <<>>
    /\ merkle_tree = None
    /\ detached = {}
    /\ snap_names = <<>>
    /\ mutated = FALSE
    /\ last = NoCall

ScenarioNext ==
    \/ /\ last.op \in {"none", "allocate"}
       /\ Len(resources) < Len(ScenarioNames)
       /\ \E priority \in ScenarioPriorities :
             AllocateNew(ScenarioNames[Len(resources) + 1], priority)
    \/ /\ last.op = "allocate" /\ Len(resources) = Len(ScenarioNames)
       /\ Build
    \/ /\ last.op = "build"
       /\ Verify
    \/ /\ last.op = "verify" /\ ~mutated /\ Len(resources) = Len(ScenarioNames)
       /\ Deallocate(ScenarioNames[2])
    \/ /\ last.op = "deallocate"
       /\ Verify
    \/ /\ last.op = "verify" /\ mutated
       /\ Build

SpecScenario == ScenarioInit /\ [][ScenarioNext]_vars

----------------------------------------------------------------------------
\* MerkleTree(data) on its own: snap_names is self.data, merkle_tree is
\* self.tree, which __init__ sets from build_tree(self.data).

\* The longest list of items given to the constructor.
MaxLeaves == 5

TreeItems == {<<"A">>, <<"B">>, Forged}

TreeInit ==
    /\ threads = <<>>
    /\ vocabulary = TreeItems
    /\ snap_names \in UNION {[1..n -> TreeItems] : n \in 0..MaxLeaves}
    /\ merkle_tree = None
    /\ resources = <<>>
    /\ detached = {}
    /\ mutated = FALSE
    /\ last = NoCall

\* MerkleTree.__init__: self.tree = self.build_tree(self.data); the assignment
\* is not reached when build_tree raises.
Construct ==
    LET root == build_tree(snap_names)
        raised == (root = IndexError)
    IN /\ last.op = "none"
       /\ merkle_tree' = IF raised THEN merkle_tree ELSE root
       /\ last' = Call("build_tree", "", <<>>, 0, IF raised THEN "IndexError" ELSE "None",
                       <<>>, "")
       /\ UNCHANGED <<threads, vocabulary, resources, detached, snap_names, mutated>>

SpecBuildTree == TreeInit /\ [][Construct]_vars

----------------------------------------------------------------------------
\* The operations step by step.  A caller's call in progress is a frame of
\* threads: its local variables and its position.  PriorityQueue.put, .get and
\* .empty are atomic (the queue's own mutex); nothing else is locked.  The read
\* of self.resources.queue by the list comprehension is taken in one step.

Callers == {1, 2}

Idle ==
    [op |-> "none", arg |-> <<>>, pc |-> "idle", deallocated_resource |-> <<>>,
     resources_copy |-> <<>>, k |-> 0, data |-> <<>>, expected |-> <<>>,
     tree |-> <<>>, ret |-> "None"]

\* The calls a caller makes.
Calls ==
    {<<"deallocate", name>> : name \in vocabulary} \cup {<<"build", <<>>>>, <<"verify", <<>>>>}

\* The queue after allocate_resource of a new record for each of the names,
\* the priorities entered being 1, 2, ..., MaxPrio, 1, 2, ...
RECURSIVE Registry(_)
Registry(names) ==
    IF names = <<>> THEN <<>>
    ELSE LET n == Len(names)
         IN allocate_resource(Registry(SubSeq(names, 1, n - 1)),
                              CloudResource(names[n], ((n - 1) % MaxPrio) + 1))

\* Entry of a call: deallocate_resource starts with its two locals, lines 54-55.
Enter(t, op, arg) ==
    /\ threads[t].pc \in {"idle", "done"}
    /\ threads' = [threads EXCEPT ![t] =
                      [Idle EXCEPT !.op = op, !.arg = arg,
                                   !.pc = CASE op = "deallocate" -> "test"
                                            [] op = "build" -> "read"
                                            [] OTHER -> "guard"]]
    /\ UNCHANGED <<vocabulary, resources, merkle_tree, detached, snap_names, mutated, last>>

\* while not self.resources.empty():
Empty(t) ==
    /\ threads[t].pc = "test"
    /\ threads' = [threads EXCEPT ![t].pc = IF resources = <<>> THEN "reinsert" ELSE "get",
                                  ![t].k = 1]
    /\ UNCHANGED <<vocabulary, resources, merkle_tree, detached, snap_names, mutated, last>>

\* resource = self.resources.get(), which waits while the queue is empty, and
\* the if/else on its name.
Get(t) ==
    /\ threads[t].pc = "get"
    /\ resources # <<>>
    /\ LET resource == get_item(resources)
       IN threads' = [threads EXCEPT
             ![t].pc = "test",
             ![t].deallocated_resource =
                 IF resource.name = threads[t].arg THEN <<resource>> ELSE @,
             ![t].resources_copy =
                 IF resource.name = threads[t].arg THEN @ ELSE Append(@, resource)]
    /\ resources' = get_rest(resources)
    /\ UNCHANGED <<vocabulary, merkle_tree, detached, snap_names, mutated, last>>

\* for resource in resources_copy: self.resources.put(resource), one record.
Reinsert(t) ==
    /\ threads[t].pc = "reinsert"
    /\ threads[t].k <= Len(threads[t].resources_copy)
    /\ resources' = put(resources, threads[t].resources_copy[threads[t].k])
    /\ threads' = [threads EXCEPT ![t].k = @ + 1]
    /\ UNCHANGED <<vocabulary, merkle_tree, detached, snap_names, mutated, last>>

\* The end of deallocate_resource: the flag of the record found, and the return.
ReturnDeallocated(t) ==
    /\ threads[t].pc = "reinsert"
    /\ threads[t].k > Len(threads[t].resources_copy)
    /\ threads' = [threads EXCEPT
          ![t].pc = "done",
          ![t].deallocated_resource =
              IF @ = <<>> THEN @ ELSE <<[@[1] EXCEPT !.allocated = FALSE]>>,
          ![t].ret = IF threads[t].deallocated_resource = <<>> THEN "None" ELSE "Resource"]
    /\ UNCHANGED <<vocabulary, resources, merkle_tree, detached, snap_names, mutated, last>>

\* verify_merkle_tree: if not self.merkle_tree: ... return False
Guard(t) ==
    /\ threads[t].pc = "guard"
    /\ threads' = [threads EXCEPT
          ![t].pc = IF merkle_tree = None THEN "done" ELSE "read",
          ![t].ret = IF merkle_tree = None THEN "False" ELSE @]
    /\ UNCHANGED <<vocabulary, resources, merkle_tree, detached, snap_names, mutated, last>>

\* resource_names = [resource.name for resource in self.resources.queue], and
\* the leaves build_tree makes of them (local to the caller).
ReadNames(t) ==
    LET resource_names_read == resource_names(resources)
    IN /\ threads[t].pc = "read"
       /\ threads' = [threads EXCEPT
             ![t].pc = IF threads[t].op = "verify" THEN "root" ELSE "loop",
             ![t].data = resource_names_read,
             ![t].tree = [i \in 1..Len(resource_names_read) |-> hash(resource_names_read[i])]]
       /\ UNCHANGED <<vocabulary, resources, merkle_tree, detached, snap_names, mutated, last>>

\* verify_merkle_tree, line 77: the left operand self.merkle_tree.tree is
\* evaluated before build_tree is called.
ReadRoot(t) ==
    /\ threads[t].pc = "root"
    /\ threads' = [threads EXCEPT ![t].pc = "loop", ![t].expected = merkle_tree]
    /\ UNCHANGED <<vocabulary, resources, merkle_tree, detached, snap_names, mutated, last>>

\* One pass of while i > 1 in build_tree.
Pass(t) ==
    /\ threads[t].pc = "loop"
    /\ Len(threads[t].tree) > 1
    /\ threads' = [threads EXCEPT ![t].tree = collapse(@, 0)]
    /\ UNCHANGED <<vocabulary, resources, merkle_tree, detached, snap_names, mutated, last>>

\* build_merkle_tree after the loop: return tree[0], which raises on an empty
\* list, and self.merkle_tree = MerkleTree(...).
Store(t) ==
    LET raised == threads[t].tree = <<>>
    IN /\ threads[t].pc = "loop" /\ threads[t].op = "build"
       /\ Len(threads[t].tree) <= 1
       /\ merkle_tree' = IF raised THEN merkle_tree ELSE threads[t].tree[1]
       /\ snap_names' = IF raised THEN snap_names ELSE threads[t].data
       /\ threads' = [threads EXCEPT ![t].pc = "done",
                                     ![t].ret = IF raised THEN "IndexError" ELSE "None"]
       /\ UNCHANGED <<vocabulary, resources, detached, mutated, last>>

\* verify_merkle_tree after the loop: return tree[0], and the comparison.
Compare(t) ==
    /\ threads[t].pc = "loop" /\ threads[t].op = "verify"
    /\ Len(threads[t].tree) <= 1
    /\ threads' = [threads EXCEPT
          ![t].pc = "done",
          ![t].ret = IF threads[t].tree = <<>> THEN "IndexError"
                     ELSE IF threads[t].expected = threads[t].tree[1] THEN "True"
                     ELSE "False"]
    /\ UNCHANGED <<vocabulary, resources, merkle_tree, detached, snap_names, mutated, last>>

\* Two callers, one call each, on an allocator with records and a snapshot of
\* them, with no lock around the calls.
ConcInit ==
    /\ threads = [t \in Callers |-> Idle]
    /\ vocabulary = {<<"A">>, <<"B">>}
    /\ snap_names \in UNION {[1..n -> vocabulary] : n \in 1..(MaxRes - 1)}
    /\ resources = Registry(snap_names)
    /\ merkle_tree = build_tree(resource_names(resources))
    /\ detached = {}
    /\ mutated = FALSE
    /\ last = NoCall

ConcNext ==
    \/ \E t \in Callers, c \in Calls : threads[t].pc = "idle" /\ Enter(t, c[1], c[2])
    \/ \E t \in Callers : Empty(t)
    \/ \E t \in Callers : Get(t)
    \/ \E t \in Callers : Reinsert(t)
    \/ \E t \in Callers : ReturnDeallocated(t)
    \/ \E t \in Callers : Guard(t)
    \/ \E t \in Callers : ReadNames(t)
    \/ \E t \in Callers : ReadRoot(t)
    \/ \E t \in Callers : Pass(t)
    \/ \E t \in Callers : Store(t)
    \/ \E t \in Callers : Compare(t)

SpecConc == ConcInit /\ [][ConcNext]_vars

\* One caller, as in main: every call runs to its end before the next is made.
\* The allocator starts with the records of some allocations and no snapshot.
SingleInit ==
    /\ threads = <<Idle>>
    /\ vocabulary = {<<"A">>, <<"B">>}
    /\ resources \in {Registry(names) :
                         names \in UNION {[1..n -> vocabulary] : n \in 0..MaxLeaves}}
    /\ merkle_tree = None
    /\ detached = {}
    /\ snap_names = <<>>
    /\ mutated = FALSE
    /\ last = NoCall

SingleNext ==
    \/ \E c \in Calls : Enter(1, c[1], c[2])
    \/ Empty(1)
    \/ Get(1)
    \/ Reinsert(1)
    \/ ReturnDeallocated(1)
    \/ Guard(1)
    \/ ReadNames(1)
    \/ ReadRoot(1)
    \/ Pass(1)
    \/ Store(1)
    \/ Compare(1)

\* The interpreter keeps executing the one caller's statements.
SpecSingle == SingleInit /\ [][SingleNext]_vars /\ WF_vars(SingleNext)

----------------------------------------------------------------------------
\* Properties

\* The number of records of the queue that carry the name.
Count(queue, name) == Len(SelectSeq(queue, LAMBDA r : r.name = name))

\* The name is the text of digests, not an ordinary name.
DigestText(name) == name # <<>> /\ name[1] = "sha256("

Ordinary(names) == \A i \in 1..Len(names) : ~DigestText(names[i])

\* C1: build_merkle_tree() immediately followed by verify_merkle_tree()
\* makes the verify return true, whatever the registry holds (also nothing).
C1_BuildThenVerifyTrue ==
    [][(last.op = "build" /\ last'.op = "verify") => last'.ret = "True"]_vars

\* C2, as claimed, in the part that does not rest on the empty registry: once a
\* record was inserted or removed after the build, the next verify does not
\* return true.
C2_NeverTrueAfterMutation ==
    (last.op = "verify" /\ merkle_tree # None /\ mutated) => last.ret # "True"

\* C2, amended: after a build and at least one insertion or removal, the next
\* verify returns false if the registry is non-empty and its enumeration of
\* names differs from the one built from (all names being ordinary ones); it
\* returns true if the enumeration is the same again; and it raises IndexError
\* on an emptied registry.
C2_StaleSnapshotVerdict ==
    (last.op = "verify" /\ merkle_tree # None /\ mutated) =>
        LET names == resource_names(resources)
        IN /\ names = <<>> => last.ret = "IndexError"
           /\ (names # <<>> /\ names = snap_names) => last.ret = "True"
           /\ (names # <<>> /\ names # snap_names /\ Ordinary(names) /\ Ordinary(snap_names))
                 => last.ret = "False"

\* C2 witness: a verify that reported a mismatch after a mutation of a
\* snapshot of several ordinary names, the registry still holding the same
\* number of names.
C2_Witness ==
    /\ last.op = "verify" /\ merkle_tree # None /\ mutated
    /\ last.ret = "False"
    /\ Len(snap_names) >= 2 /\ Len(resources) = Len(snap_names)
    /\ Ordinary(snap_names) /\ Ordinary(resource_names(resources))

\* C3: a deallocate_resource that finds no record of the name returns None and
\* leaves the queue (records, order, flags) and the stored root as they were; a
\* verify that would return true before it returns true after it.
C3_NotFoundChangesNothing ==
    [][(last'.op = "deallocate" /\ Count(resources, last'.arg) = 0) =>
          /\ last'.ret = "None"
          /\ resources' = resources
          /\ merkle_tree' = merkle_tree
          /\ (verify_merkle_tree = "True" => verify_merkle_tree' = "True")]_vars

\* C4: when several records carry the name, deallocate_resource removes exactly
\* one: the queue shrinks by one, the record returned has allocated = false and
\* the other records of that name are still in the queue.
C4_ExactlyOneRemoved ==
    [][(last'.op = "deallocate" /\ Count(resources, last'.arg) >= 2) =>
          /\ Len(resources') = Len(resources) - 1
          /\ last'.res # <<>> /\ ~last'.res[1].allocated
          /\ Count(resources', last'.arg) = Count(resources, last'.arg) - 1]_vars

\* C5: a record is flagged allocated if and only if it is held in the queue.
C5_AllocatedIffHeld ==
    /\ \A i \in 1..Len(resources) : resources[i].allocated
    /\ \A r \in detached : ~r.allocated

\* C6: allocate_resource returns false and changes nothing when the record is
\* already allocated, and returns true when it inserts the record.
C6_ReturnTellsOutcome ==
    [][last'.op = "allocate" =>
          IF Len(resources') = Len(resources)
          THEN last'.ret = "False" /\ resources' = resources /\ merkle_tree' = merkle_tree
          ELSE last'.ret = "True" /\ Len(resources') = Len(resources) + 1
                 /\ Count(resources', last'.arg) = Count(resources, last'.arg) + 1]_vars

\* C7: the same name and priority allocated twice in a row from the menu: the
\* second call returns false and one record of that name is in the registry.
C7_SecondAllocateRejected ==
    (last.op = "allocate" /\ last.src = "new" /\ last.again) =>
        last.ret = "False" /\ Count(resources, last.arg) = 1

\* C8: a deallocate_resource(name) that directly follows a
\* deallocate_resource of the same name returns None.
C8_SecondDeallocateNone ==
    (last.op = "deallocate" /\ last.again) =>
        last.ret = "None" /\ last.res = <<>> /\ Count(resources, last.arg) = 0

\* C8 witness: the second of two deallocations of a name, of which several
\* records were taken out, with other records left in the queue.
C8_Witness ==
    /\ last.op = "deallocate" /\ last.again
    /\ Cardinality({r \in detached : r.name = last.arg}) >= 2
    /\ resources # <<>>

\* C9: verify_merkle_tree() while no tree was ever built returns false, raises
\* nothing, changes neither the queue nor the stored tree, and prints the line
\* "Merkle tree not built.", which no verify of a built tree prints.
C9_NoSnapshotReported ==
    [][last'.op = "verify" =>
          /\ resources' = resources /\ merkle_tree' = merkle_tree
          /\ merkle_tree = None =>
                last'.ret = "False" /\ last'.printed = "Merkle tree not built."
          /\ merkle_tree # None => last'.printed # "Merkle tree not built."]_vars

\* C9 witness: a verify on a registry that holds records and has no tree.
C9_Witness ==
    /\ last.op = "verify"
    /\ merkle_tree = None /\ resources # <<>>
    /\ last.ret = "False" /\ last.printed = "Merkle tree not built."

\* C10: no operation ends in an unhandled error: build_merkle_tree() and
\* verify_merkle_tree() complete with a defined outcome on an empty registry.
C10_NoUnhandledError == last.ret # "IndexError"

\* C11: verify_merkle_tree() is a pure read: it leaves the records, their
\* order, their flags and the stored root as they were, so a verify that
\* directly follows a verify has the same outcome and prints the same.
C11_VerifyIsPureRead ==
    [][last'.op = "verify" =>
          /\ resources' = resources
          /\ merkle_tree' = merkle_tree
          /\ last.op = "verify" =>
                last'.ret = last.ret /\ last'.printed = last.printed]_vars

\* C11 witness: the second of two verifies of a stale snapshot, both
\* reporting the mismatch.
C11_Witness ==
    /\ last.op = "verify" /\ last.again
    /\ merkle_tree # None /\ mutated /\ resources # <<>>
    /\ last.ret = "False"

\* C12: in the scenario allocate A, B, C; build; verify; deallocate B; verify;
\* build; verify (the priorities 5, 1, 3 of the claim among those drawn): the
\* verify after a build returns true, the deallocation returns the record of
\* B with allocated = false, the verify after it returns false, and the
\* second build stores a root other than the first.
C12_ScenarioOutcome ==
    [][/\ (last'.op = "verify" /\ last.op = "build") => last'.ret = "True"
       /\ last'.op = "deallocate" =>
             /\ last'.ret = "Resource"
             /\ \E i \in 1..Len(resources) :
                   /\ resources[i].name = ScenarioNames[2]
                   /\ last'.res = <<[resources[i] EXCEPT !.allocated = FALSE]>>
             /\ resource_names(resources') \in
                   {<<ScenarioNames[1], ScenarioNames[3]>>,
                    <<ScenarioNames[3], ScenarioNames[1]>>}
       /\ (last'.op = "verify" /\ last.op = "deallocate") => last'.ret = "False"
       /\ (last'.op = "build" /\ merkle_tree # None) =>
             merkle_tree' # merkle_tree /\ merkle_tree' # IndexError]_vars

\* C12 witness: the end of the scenario with A(5), B(1), C(3): the third
\* verify returned true on the registry C(3), A(5) and its new snapshot.
C12_Witness ==
    /\ last.op = "verify" /\ last.ret = "True" /\ ~mutated
    /\ resources = <<[name |-> <<"C">>, priority |-> 3, allocated |-> TRUE],
                     [name |-> <<"A">>, priority |-> 5, allocated |-> TRUE]>>
    /\ detached = {[name |-> <<"B">>, priority |-> 1, allocated |-> FALSE]}
    /\ snap_names = << <<"C">>, <<"A">> >>

\* The reference computation of a root: the next level has one node for each
\* adjacent pair, digest(left || right), and the unpaired last node of an odd
\* level as it is.
RefLevel(level) ==
    [k \in 1..((Len(level) + 1) \div 2) |->
        IF 2 * k <= Len(level) THEN hash(level[2 * k - 1] \o level[2 * k])
        ELSE level[2 * k - 1]]

RECURSIVE RefRoot(_)
RefRoot(level) == IF Len(level) = 1 THEN level[1] ELSE RefRoot(RefLevel(level))

Reference(items) == RefRoot([i \in 1..Len(items) |-> hash(items[i])])

\* C13: for every non-empty list of strings build_tree returns, without
\* raising, the root of the reference computation (leaves hashed, pairs
\* hashed left to right, an unpaired last node carried forward unchanged).
C13_BuildTreeIsReference ==
    (last.op = "build_tree" /\ snap_names # <<>>) =>
        last.ret = "None" /\ merkle_tree = Reference(snap_names)

\* C13 witness: a tree built from five items, whose fifth leaf is carried
\* forward unchanged through two levels and paired at the third.
C13_Witness ==
    /\ last.op = "build_tree" /\ Len(snap_names) = 5
    /\ snap_names[1] # snap_names[2] /\ DigestText(snap_names[3])
    /\ LET h(i) == hash(snap_names[i])
       IN merkle_tree = hash(hash(hash(h(1) \o h(2)) \o hash(h(3) \o h(4))) \o h(5))

\* C14: the allocator holds one stored root, and only build_merkle_tree
\* changes it: a build that returns stores the root of the names enumerated at
\* the call, and every allocate, deallocate, verify, get_allocated_resources
\* and get_resource_by_name call leaves the stored root as it was.
C14_OnlyBuildChangesRoot ==
    [][/\ last'.op # "build" => merkle_tree' = merkle_tree /\ snap_names' = snap_names
       /\ (last'.op = "build" /\ last'.ret = "None") =>
              /\ merkle_tree' = build_tree(resource_names(resources))
              /\ snap_names' = resource_names(resources)
              /\ resources' = resources]_vars

\* C14 witness: the two reads have run one after the other on a registry that
\* changed since the build, and the stored root is still the root of the names
\* enumerated at the build, not of the current ones.
C14_Witness ==
    /\ last.op = "get_by_name" /\ last.ret = "Resource"
    /\ mutated /\ resources # <<>>
    /\ merkle_tree = build_tree(snap_names)
    /\ merkle_tree # build_tree(resource_names(resources))

\* C15: get_allocated_resources() returns the names of all queued records in
\* the enumeration order that build and verify use as leaves; every queued
\* record has allocated = true, so the filter drops nothing.
C15_ListIsEnumeration ==
    /\ \A i \in 1..Len(resources) : resources[i].allocated
    /\ get_allocated_resources = resource_names(resources)
    /\ last.op = "get_allocated" => last.names = resource_names(resources)

\* C15 witness: the list returned for three queued records, in an order that
\* is not the order of their priorities.
C15_Witness ==
    /\ last.op = "get_allocated" /\ Len(last.names) = 3
    /\ last.names = <<resources[1].name, resources[2].name, resources[3].name>>
    /\ resources[2].priority > resources[3].priority
    /\ resources[1].name # resources[2].name

\* C16, as claimed: on a non-empty registry with a stored snapshot, verify
\* returns true if and only if the names now enumerated are the sequence
\* enumerated at the last build.
C16_TrueIffSameNames ==
    (last.op = "verify" /\ merkle_tree # None /\ resources # <<>>) =>
        (last.ret = "True" <=> resource_names(resources) = snap_names)

\* C16, amended: on a non-empty registry with a stored snapshot, verify returns
\* true whenever the names now enumerated are the sequence enumerated at the
\* last build, whatever the priorities; and when it returns true and no name
\* of either sequence is itself the text of digests, the two sequences are equal.
C16_TrueIffSameOrdinaryNames ==
    (last.op = "verify" /\ merkle_tree # None /\ resources # <<>>) =>
        LET names == resource_names(resources)
        IN /\ last.ret \in {"True", "False"}
           /\ names = snap_names => last.ret = "True"
           /\ (last.ret = "True" /\ Ordinary(names) /\ Ordinary(snap_names))
                 => names = snap_names

\* C16 witness: records were removed and inserted since the build, two records
\* of different names are enumerated in the order of the build, and verify
\* returned true.
C16_Witness ==
    /\ last.op = "verify" /\ last.ret = "True" /\ mutated
    /\ Len(resources) = 2 /\ resources[1].name # resources[2].name
    /\ resource_names(resources) = snap_names
    /\ Ordinary(snap_names)

\* C19: in every state reached by allocate and deallocate calls the queue's
\* array is a binary min-heap on priority (the record at position i div 2,
\* positions counted from 1, has a priority <= that of the record at
\* position i), hence the first record enumerated has a minimum priority.
C19_MinHeap ==
    /\ \A i \in 2..Len(resources) :
          resources[i \div 2].priority <= resources[i].priority
    /\ \A i \in 1..Len(resources) : resources[1].priority <= resources[i].priority

\* C19 witness: a heap of three records, left by allocations, whose
\* enumeration is not sorted by priority (the second is above the third).
C19_Witness ==
    /\ last.op = "allocate" /\ Len(resources) = 3
    /\ resources[1].priority < resources[2].priority
    /\ resources[3].priority < resources[2].priority

\* The number of records of the queue equal to r.
Copies(queue, r) == Len(SelectSeq(queue, LAMBDA q : q = r))

\* C20: right after any deallocate_resource(name), whether a record matched
\* or not, the enumeration is non-decreasing in priority, and the records kept
\* are, with their multiplicities, the records of before whose name is not name.
C20_SortedAfterDeallocate ==
    [][last'.op = "deallocate" =>
          /\ \A i \in 2..Len(resources') :
                resources'[i - 1].priority <= resources'[i].priority
          /\ \A i \in 1..Len(resources') : resources'[i].name # last'.arg
          /\ \A i \in 1..Len(resources) :
                Copies(resources', resources[i]) =
                    IF resources[i].name = last'.arg THEN 0
                    ELSE Copies(resources, resources[i])
          /\ \A i \in 1..Len(resources') :
                Copies(resources, resources'[i]) = Copies(resources', resources'[i])]_vars

\* C20 witness: a deallocate that matched nothing has left three records in
\* the order of their priorities, which is not the order they were enumerated
\* in at the build before it; nothing was inserted or removed in between.
C20_Witness ==
    /\ last.op = "deallocate" /\ last.ret = "None"
    /\ merkle_tree # None /\ ~mutated
    /\ Len(resources) = 3 /\ resources[1].priority < resources[3].priority
    /\ resource_names(resources) # snap_names

\* Caller u is inside the drain-and-reinsert of a deallocate_resource and
\* holds records it keeps (not of the name it removes) out of the queue.
MidDrain(u) ==
    /\ threads[u].op = "deallocate"
    /\ \/ threads[u].pc \in {"test", "get"} /\ threads[u].resources_copy # <<>>
       \/ threads[u].pc = "reinsert" /\ threads[u].k <= Len(threads[u].resources_copy)

\* Caller t waits in get() on an empty queue, and the other caller, whose
\* deallocate_resource took the records, has returned: nothing will be put.
BlockedForever ==
    \E t \in Callers :
        /\ threads[t].op = "deallocate" /\ threads[t].pc = "get" /\ resources = <<>>
        /\ \A u \in Callers \ {t} :
              threads[u].op = "deallocate" /\ threads[u].pc = "done"

\* C17, as claimed: with two callers and no lock, a build or verify never reads
\* the queue while the other caller's deallocate_resource holds kept records
\* out of it, and no deallocate_resource is left waiting for ever in get() on
\* a queue the other caller has emptied.
C17_ConcurrentCallsAreSafe ==
    [][/\ \A t \in Callers :
             (threads[t].pc = "read" /\ threads'[t].pc # "read") =>
                 ~(\E u \in Callers \ {t} : MidDrain(u))
       /\ ~BlockedForever']_vars

\* What a step of the one caller's loops does to their measures: a pass of
\* build_tree turns a level of i > 1 nodes into one of ceil(i/2) < i nodes; a
\* get of the drain loop is made on a non-empty queue and takes one record
\* out; a put of the reinsertion loop moves on by one kept record and is made
\* only after the queue was drained to empty.
LoopsProgress ==
    /\ (threads[1].pc = "loop" /\ threads'[1].pc = "loop") =>
          /\ Len(threads[1].tree) > 1
          /\ Len(threads'[1].tree) = (Len(threads[1].tree) + 1) \div 2
          /\ Len(threads'[1].tree) < Len(threads[1].tree)
    /\ threads[1].pc = "get" =>
          /\ resources # <<>>
          /\ Len(resources') = Len(resources) - 1
          /\ Len(threads'[1].resources_copy) + Len(threads'[1].deallocated_resource)
                 >= Len(threads[1].resources_copy) + Len(threads[1].deallocated_resource)
    /\ (threads[1].pc = "test" /\ threads'[1].pc = "reinsert") => resources = <<>>
    /\ (threads[1].pc = "reinsert" /\ threads'[1].pc = "reinsert") =>
          /\ threads'[1].k = threads[1].k + 1
          /\ threads'[1].k <= Len(threads[1].resources_copy) + 1
          /\ Len(resources') = threads[1].k

\* C18: with one caller every call of deallocate_resource, build_merkle_tree
\* and verify_merkle_tree, once entered, reaches its end (a return or, for an
\* empty list of names, the raise of IndexError): each pass of build_tree's
\* loop shrinks a level of i > 1 nodes to ceil(i/2) < i, the drain loop takes
\* each queued record out once, and the kept records are then put back.
C18_EveryCallTerminates ==
    /\ [][LoopsProgress]_vars
    /\ \A op \in {"deallocate", "build", "verify"} :
          (threads[1].op = op /\ threads[1].pc # "done")
              ~> (threads[1].op = op /\ threads[1].pc = "done")

\* C18 witness: a build_merkle_tree over five records has ended after three
\* passes (5, 3, 2, 1 nodes), the fifth leaf having been carried forward twice.
C18_Witness ==
    /\ threads # <<>> /\ threads[1].op = "build" /\ threads[1].pc = "done"
    /\ threads[1].ret = "None" /\ Len(threads[1].data) = 5
    /\ Len(resources) = 5
    /\ merkle_tree = Reference(threads[1].data)

====
